---- MODULE Spec2Model ----
(***************************************************************************)
(* Model of the DrawingCanvas component (src/DrawingCanvas.tsx): the       *)
(* undo/redo history kept by saveToHistory / undo / redo, and the stack    *)
(* based floodFill over the canvas pixel buffer.  The file holds two       *)
(* copies of the component: the first (lines 1-698) keeps 50 history       *)
(* steps and fills without an iteration limit, the second (lines 699-1552) *)
(* keeps 30 steps, scales the canvas by devicePixelRatio and limits the    *)
(* fill loop to maxIterations.  `variant` says which copy is running.      *)
(***************************************************************************)
EXTENDS Integers, Sequences, FiniteSets, TLC

VARIABLES
  variant,      \* 1: first copy of the component, 2: second copy
  history,      \* useState<DrawingState[]>([])
  historyStep,  \* useState(-1)
  canvas,       \* what the main canvas shows (the content behind ctxRef)
  keyHistory,   \* the `history` array captured by the registered keydown handler
  now,          \* Date.now(): a logical clock, one tick per saved snapshot
  sideOps,      \* number of handlers run so far other than a drawing gesture's save
  width,        \* props.width: the canvas width in CSS pixels
  height,       \* props.height
  dpr,          \* window.devicePixelRatio || 1 (second copy; 1 in the first)
  color,        \* useState('#000000'): the current colour, a string of characters
  lastOp,       \* the handler that ran last
  prev,         \* history, historyStep, canvas, keyHistory, lastOp before that handler
                \* (recentColors, color, lastOp where the recent colours are followed)
  lastFill,     \* what the last floodFill call was given and did
  loop,         \* the floodFill call in progress, when its loop is followed step by step
  heap,         \* the ImageData objects allocated so far, when snapshots are followed as references
  gesture,      \* isDrawing, tool, startPoint and the pointer gesture in progress
  recentColors  \* useState<string[]>([]): the recent colours of the toolbar

vars == <<variant, history, historyStep, canvas, keyHistory, now, sideOps,
          width, height, dpr, color, lastOp, prev, lastFill, loop,
          heap, gesture, recentColors>>

\* the state that the history and fill handlers below leave alone
Extra == <<heap, gesture, recentColors>>

----------------------------------------------------------------------------
(* Bounds of the exploration.                                              *)

\* snapshots saved beyond the history limit
MaxOverflow == 2

\* handlers in one run other than the save that ends a drawing gesture:
\* undo, redo, clearCanvas, the save of a gesture that drew nothing
MaxSideOps == 2

\* canvas sides, in CSS pixels, of the buffers floodFill is run on
MaxSide == 3

\* devicePixelRatio values tried in the second copy: 1..MaxDpr
MaxDpr == 2

\* pixels of the largest buffer on which every colouring is tried
MaxPixels == 9

\* side of the larger single-colour buffer that is filled as well
UniformSide == 5

\* clicks of the fill tool in one run
MaxFills == 2

\* pixels of the largest two-colour buffer on which the loop is followed
\* step by step
MaxLoopPixels == 4

\* length of the longest string given to hexToRgb
MaxHexLen == 7

\* handlers in one run in which snapshots are followed as references, and
\* the width of its canvas
MaxHeapOps == 4

HeapWidth == 2

\* the width, in pixels, of the one-row canvas on which pointer gestures
\* are followed, and the number of events delivered in one run
GestureWidth == 3

MaxGestureEvents == 6

\* the colours the colour picker offers in one run, and the number of
\* times a colour that is already among the recent colours is chosen again,
\* in the picker or by its button
MaxColors == 10

MaxRepicks == 2

----------------------------------------------------------------------------
(* The history limit, one literal per copy of the component.               *)

HistoryLimitV1 == 50

HistoryLimitV2 == 30

HistoryLimit(v) == IF v = 1 THEN HistoryLimitV1 ELSE HistoryLimitV2

\* An abstract canvas image: 0 is the untouched canvas, a positive number
\* is the image left by the edit made at that clock value.
BlankImage == 0

\* The part of the state a history operation reads or writes.
View ==
  [history |-> history, historyStep |-> historyStep, canvas |-> canvas,
   keyHistory |-> keyHistory, lastOp |-> lastOp]

----------------------------------------------------------------------------
(* saveToHistory: getImageData, slice(0, historyStep + 1), push, then      *)
(* either shift() or setHistoryStep(historyStep + 1), and setHistory.      *)
(* Returns the new history and historyStep.                                *)

saveToHistory_noShift(hist, step, imageData, ts, limit) ==
  [history |-> Append(SubSeq(hist, 1, step + 1), [imageData |-> imageData, timestamp |-> ts]),
   historyStep |-> step + 1]

saveToHistory_stepAlways(hist, step, imageData, ts, limit) ==
  LET newHistory == Append(SubSeq(hist, 1, step + 1),
                           [imageData |-> imageData, timestamp |-> ts])
  IN  IF Len(newHistory) > limit
        THEN [history |-> Tail(newHistory), historyStep |-> step + 1]
        ELSE [history |-> newHistory, historyStep |-> step + 1]

saveToHistory_keepRedo(hist, step, imageData, ts, limit) ==
  LET newHistory == Append(hist, [imageData |-> imageData, timestamp |-> ts])
  IN  IF Len(newHistory) > limit
        THEN [history |-> Tail(newHistory), historyStep |-> Len(newHistory) - 2]
        ELSE [history |-> newHistory, historyStep |-> Len(newHistory) - 1]

saveToHistory_dropNewest(hist, step, imageData, ts, limit) ==
  LET newHistory == Append(SubSeq(hist, 1, step + 1),
                           [imageData |-> imageData, timestamp |-> ts])
  IN  IF Len(newHistory) > limit
        THEN [history |-> SubSeq(newHistory, 1, Len(newHistory) - 1), historyStep |-> step]
        ELSE [history |-> newHistory, historyStep |-> step + 1]

saveToHistory_shortOfTail(hist, step, imageData, ts, limit) ==
  LET newHistory == Append(SubSeq(hist, 1, step + 1), [imageData |-> imageData, timestamp |-> ts])
  IN  IF Len(newHistory) > limit
        THEN [history |-> Tail(newHistory), historyStep |-> step - 1]
        ELSE [history |-> newHistory, historyStep |-> step + 1]

saveToHistory_evictWhenFull(hist, step, imageData, ts, limit) ==
  LET newHistory == Append(SubSeq(hist, 1, step + 1), [imageData |-> imageData, timestamp |-> ts])
  IN  IF Len(hist) >= limit
        THEN [history |-> Tail(newHistory), historyStep |-> Len(newHistory) - 2]
        ELSE [history |-> newHistory, historyStep |-> step + 1]

saveToHistory(hist, step, imageData, ts, limit) ==
  LET newHistory == Append(SubSeq(hist, 1, step + 1),
                           [imageData |-> imageData, timestamp |-> ts])
  IN  IF Len(newHistory) > limit
        THEN [history |-> Tail(newHistory), historyStep |-> step]
        ELSE [history |-> newHistory, historyStep |-> step + 1]

----------------------------------------------------------------------------
(* undo / redo as functions of the history and historyStep their closure   *)
(* holds and of the canvas: they return the new historyStep and canvas.    *)
(* Neither calls setHistory.                                               *)

undo_fromZero(hist, step, canv) ==
  IF step > 0
    THEN [historyStep |-> step - 1, canvas |-> hist[step].imageData]
    ELSE IF step = 0
           THEN [historyStep |-> step - 1, canvas |-> canv]
           ELSE [historyStep |-> step, canvas |-> canv]

undo_twoSteps(hist, step, canv) ==
  IF step > 1
    THEN [historyStep |-> step - 2, canvas |-> hist[step - 1].imageData]
    ELSE IF step > 0
           THEN [historyStep |-> step - 1, canvas |-> hist[step].imageData]
           ELSE [historyStep |-> step, canvas |-> canv]

undo(hist, step, canv) ==
  IF step > 0
    THEN LET prevStep == step - 1
         IN  [historyStep |-> prevStep, canvas |-> hist[prevStep + 1].imageData]
    ELSE [historyStep |-> step, canvas |-> canv]

redo_noRestore(hist, step, canv) ==
  IF step < Len(hist) - 1
    THEN [historyStep |-> step + 1, canvas |-> canv]
    ELSE [historyStep |-> step, canvas |-> canv]

redo(hist, step, canv) ==
  IF step < Len(hist) - 1
    THEN LET nextStep == step + 1
         IN  [historyStep |-> nextStep, canvas |-> hist[nextStep + 1].imageData]
    ELSE [historyStep |-> step, canvas |-> canv]

----------------------------------------------------------------------------
(* The keydown effect has the dependency list [historyStep]: the handler   *)
(* is registered again, with the undo and redo of the new render, only     *)
(* after a render in which historyStep differs from the render before.     *)

keyHandlerHistory(oldStep, newStep, newHist, captured) ==
  IF newStep # oldStep THEN newHist ELSE captured

----------------------------------------------------------------------------
(* Colours and the pixel buffer.  imageData.data holds four bytes per      *)
(* pixel; here a buffer is a function from the pixel number y*width + x    *)
(* (the source's index / 4) to the colour made of those four bytes.        *)

Rgba(r, g, b, a) == [r |-> r, g |-> g, b |-> b, a |-> a]

Transparent == Rgba(0, 0, 0, 0)

Black == Rgba(0, 0, 0, 255)

White == Rgba(255, 255, 255, 255)

\* What reading a typed array outside its range gives: undefined.
Undefined == 0 - 1

getPixelColor(pixels, x, y, w) ==
  LET index == y * w + x
  IN  IF index \in DOMAIN pixels
        THEN pixels[index]
        ELSE Rgba(Undefined, Undefined, Undefined, Undefined)

setPixelColor_viaWhite(pixels, x, y, w, c) ==
  LET index == y * w + x
  IN  IF index \in DOMAIN pixels
        THEN [pixels EXCEPT ![index] = IF pixels[index].a = 0 THEN Rgba(255, 255, 255, 255) ELSE c]
        ELSE pixels

\* A write outside the range of a typed array is ignored.
setPixelColor(pixels, x, y, w, c) ==
  LET index == y * w + x
  IN  IF index \in DOMAIN pixels THEN [pixels EXCEPT ![index] = c] ELSE pixels

colorsMatch_noAlpha(c1, c2) == c1.r = c2.r /\ c1.g = c2.g /\ c1.b = c2.b

colorsMatch(c1, c2) == c1.r = c2.r /\ c1.g = c2.g /\ c1.b = c2.b /\ c1.a = c2.a

\* A string is a sequence of one-character strings.
HexLower == <<"0", "1", "2", "3", "4", "5", "6", "7", "8", "9", "a", "b", "c", "d", "e", "f">>

HexUpper == <<"0", "1", "2", "3", "4", "5", "6", "7", "8", "9", "A", "B", "C", "D", "E", "F">>

\* [a-f\d] under the i flag
IsHexDigit(ch) == \E i \in 1..16 : HexLower[i] = ch \/ HexUpper[i] = ch

HexValue(ch) == CHOOSE v \in 0..15 : HexLower[v + 1] = ch \/ HexUpper[v + 1] = ch

\* parseInt(pair, 16) of two hex digits
parseInt16(hi, lo) == 16 * HexValue(hi) + HexValue(lo)

\* /^#?([a-f\d]{2})([a-f\d]{2})([a-f\d]{2})$/i, and black when it does not match
hexToRgb(hex) ==
  LET digits == IF Len(hex) > 0 /\ hex[1] = "#" THEN Tail(hex) ELSE hex
      result == Len(digits) = 6 /\ \A i \in 1..6 : IsHexDigit(digits[i])
  IN  IF result
        THEN Rgba(parseInt16(digits[1], digits[2]), parseInt16(digits[3], digits[4]),
                  parseInt16(digits[5], digits[6]), 255)
        ELSE Rgba(0, 0, 0, 255)

----------------------------------------------------------------------------
(* floodFill.  The loop keeps the work list `stack` (last element on top), *)
(* the set `visited` and, in the second copy, the counter `iterations`;    *)
(* in the first copy `iterations` only counts the runs of the loop body.   *)

\* the four pushes at the end of the loop body, in the order they are made
neighbours_noUp(x, y) ==
  <<[x |-> x + 1, y |-> y], [x |-> x - 1, y |-> y], [x |-> x, y |-> y + 1]>>

neighbours_diagonal(x, y) ==
  <<[x |-> x + 1, y |-> y], [x |-> x - 1, y |-> y], [x |-> x, y |-> y + 1],
    [x |-> x, y |-> y - 1], [x |-> x + 1, y |-> y + 1]>>

neighbours(x, y) ==
  <<[x |-> x + 1, y |-> y], [x |-> x - 1, y |-> y], [x |-> x, y |-> y + 1],
    [x |-> x, y |-> y - 1]>>

\* One run of the loop body: pop, the three `continue` tests, the write and
\* the pushes.  w and h are the bounds the body tests against.
fillStep(st, w, h, targetColor, fillColor) ==
  LET top == st.stack[Len(st.stack)]
      x == top.x
      y == top.y
      key == <<x, y>>
      rest == SubSeq(st.stack, 1, Len(st.stack) - 1)
      skip == [st EXCEPT !.stack = rest, !.iterations = st.iterations + 1]
  IN  IF key \in st.visited THEN skip
      ELSE IF x < 0 \/ x >= w \/ y < 0 \/ y >= h THEN skip
      ELSE IF ~colorsMatch(getPixelColor(st.pixels, x, y, w), targetColor) THEN skip
      ELSE [pixels |-> setPixelColor(st.pixels, x, y, w, fillColor),
            visited |-> st.visited \cup {key},
            stack |-> rest \o neighbours(x, y),
            iterations |-> st.iterations + 1]

\* the loop conditions: while (stack.length > 0) and
\* while (stack.length > 0 && iterations < maxIterations)
whileV1(st) == Len(st.stack) > 0

whileV2_noLimit(st, maxIterations) == Len(st.stack) > 0

whileV2(st, maxIterations) == Len(st.stack) > 0 /\ st.iterations < maxIterations

RECURSIVE fillLoopV1(_, _, _, _, _)
fillLoopV1(st, w, h, targetColor, fillColor) ==
  IF whileV1(st)
    THEN fillLoopV1(fillStep(st, w, h, targetColor, fillColor), w, h, targetColor, fillColor)
    ELSE st

RECURSIVE fillLoopV2(_, _, _, _, _, _)
fillLoopV2(st, w, h, targetColor, fillColor, maxIterations) ==
  IF whileV2(st, maxIterations)
    THEN fillLoopV2(fillStep(st, w, h, targetColor, fillColor), w, h, targetColor,
                    fillColor, maxIterations)
    ELSE st

\* Math.floor of the quotient num / den, den > 0
MathFloor(num, den) == num \div den

FillStart(pixels, x, y) ==
  [pixels |-> pixels, visited |-> {}, stack |-> <<[x |-> x, y |-> y]>>, iterations |-> 0]

FillResult(returned, st) ==
  [returned |-> returned, pixels |-> st.pixels, visited |-> st.visited,
   stack |-> st.stack, iterations |-> st.iterations]

\* First copy: floodFill(startX, startY) on a canvas of canvasW x canvasH
\* pixels.  returned is "early" when the colours match (nothing is put back
\* on the canvas and nothing is saved), "done" after the loop.
floodFillV1(canv, canvasW, canvasH, startX, startY, hex) ==
  LET targetColor == getPixelColor(canv, startX, startY, canvasW)
      fillColor == hexToRgb(hex)
  IN  IF colorsMatch(targetColor, fillColor)
        THEN FillResult("early", [FillStart(canv, startX, startY) EXCEPT !.stack = <<>>])
        ELSE FillResult("done", fillLoopV1(FillStart(canv, startX, startY), canvasW, canvasH,
                                           targetColor, fillColor))

\* Second copy: startX and startY arrive as the quotients xNum / xDen and
\* yNum / yDen, the buffer is w * d wide, and the loop is limited.
floodFillV2(canv, w, h, d, xNum, xDen, yNum, yDen, hex) ==
  LET startX == MathFloor(xNum, xDen)
      startY == MathFloor(yNum, yDen)
      targetColor == getPixelColor(canv, startX, startY, w * d)
      fillColor == hexToRgb(hex)
      maxIterations == w * h * d * d
  IN  IF colorsMatch(targetColor, fillColor)
        THEN FillResult("early", [FillStart(canv, startX, startY) EXCEPT !.stack = <<>>])
        ELSE FillResult("done", fillLoopV2(FillStart(canv, startX, startY), w * d, h * d,
                                           targetColor, fillColor, maxIterations))

----------------------------------------------------------------------------
(* Handlers.  Each one runs to completion; the component is rendered       *)
(* again between two of them.                                              *)

NoFill ==
  [ran |-> FALSE, clicks |-> 0, offsetX |-> 0, offsetY |-> 0, startX |-> 0, startY |-> 0,
   returned |-> "none", written |-> 0, iterations |-> 0, left |-> 0]

\* useState(false), useState<Tool>('brush'), useState<Point | null>(null):
\* no pointer gesture in progress.  A Point | null and a number | null are
\* sequences of at most one element; pathPoints, animationFrameId and the
\* preview canvas exist in the second copy only; path is the current path
\* of the 2d context of the main canvas.  The fields from phase on record
\* the pointer and the gesture for the properties:
\*   phase        "idle", "pressed" (button down since a mousedown on the
\*                canvas), "released" (mouseup delivered, click to follow)
\*   position     the last position of the pointer
\*   events       number of events delivered
\*   wasDrawing   isDrawing when the last handler started
\*   started, downTool, downPoint, nowAtDown, canvasAtDown
\*                the last mousedown: the tool, its point, the number of
\*                snapshots taken and the canvas at that moment
\*   recorded     the positions draw was given since then while isDrawing
\*   fillReturned how the last floodFill call of handleCanvasClick returned
NoGesture ==
  [isDrawing |-> FALSE, tool |-> "brush", startPoint |-> <<>>,
   pathPoints |-> <<>>, animationFrameId |-> <<>>, preview |-> <<>>, path |-> <<>>,
   phase |-> "idle", position |-> 0, events |-> 0, wasDrawing |-> FALSE,
   started |-> FALSE, downTool |-> "brush", downPoint |-> 0, nowAtDown |-> 0, canvasAtDown |-> <<>>,
   recorded |-> {}, fillReturned |-> "none"]

\* no floodFill call in progress
NoLoop ==
  [pc |-> "idle", st |-> FillStart(<<>>, 0, 0), targetColor |-> Transparent,
   fillColor |-> Transparent, maxIterations |-> 0, reads |-> {}, writes |-> {}]

\* The state of the hooks before the mount effect has run.  The canvas
\* image is abstract here: the history operations only copy it.
Init ==
  /\ variant \in {1, 2}
  /\ history = <<>>
  /\ historyStep = -1
  /\ canvas = BlankImage
  /\ keyHistory = <<>>
  /\ now = 0
  /\ sideOps = 0
  /\ width = 0
  /\ height = 0
  /\ dpr = 1
  /\ color = <<"#", "0", "0", "0", "0", "0", "0">>
  /\ lastOp = "init"
  /\ prev = [history |-> <<>>, historyStep |-> -1, canvas |-> BlankImage,
             keyHistory |-> <<>>, lastOp |-> "init"]
  /\ lastFill = NoFill
  /\ loop = NoLoop
  /\ heap = <<>>
  /\ gesture = NoGesture
  /\ recentColors = <<>>

\* The saving handlers share this: saveToHistory on the image `img` now on
\* the canvas, then the render that follows.
Save(op, img) ==
  LET r == saveToHistory(history, historyStep, img, now + 1, HistoryLimit(variant))
  IN  /\ now < HistoryLimit(variant) + MaxOverflow
      /\ now' = now + 1
      /\ canvas' = img
      /\ history' = r.history
      /\ historyStep' = r.historyStep
      /\ keyHistory' = keyHandlerHistory(historyStep, r.historyStep, r.history, keyHistory)
      /\ lastOp' = op
      /\ prev' = View
      /\ UNCHANGED <<variant, width, height, dpr, color, loop>>
      /\ UNCHANGED Extra

\* The mount effect: "Save initial state".
Mount ==
  /\ lastOp = "init"
  /\ Save("push", canvas)
  /\ UNCHANGED <<sideOps, lastFill>>

\* finishDrawing at the end of a brush, eraser or shape gesture in which the
\* pointer moved: the canvas holds what the gesture drew (a new image), and
\* it is saved.
finishDrawing ==
  /\ lastOp # "init"
  /\ Save("push", now + 1)
  /\ UNCHANGED <<sideOps, lastFill>>

\* finishDrawing at the end of a gesture in which the pointer did not move:
\* nothing was drawn, the canvas is saved as it is.
finishDrawingNoMove ==
  /\ lastOp # "init"
  /\ sideOps < MaxSideOps
  /\ sideOps' = sideOps + 1
  /\ Save("push", canvas)
  /\ UNCHANGED lastFill

\* clearCanvas: clearRect (first copy) or a white fillRect (second copy),
\* then saveToHistory.
clearCanvas ==
  /\ lastOp # "init"
  /\ sideOps < MaxSideOps
  /\ sideOps' = sideOps + 1
  /\ Save("push", BlankImage)
  /\ UNCHANGED lastFill

Rewind_truncates(op, r) ==
  /\ lastOp # "init"
  /\ sideOps < MaxSideOps
  /\ sideOps' = sideOps + 1
  /\ historyStep' = r.historyStep
  /\ canvas' = r.canvas
  /\ history' = SubSeq(history, 1, r.historyStep + 1)
  /\ keyHistory' = keyHandlerHistory(historyStep, r.historyStep, history', keyHistory)
  /\ lastOp' = op
  /\ prev' = View
  /\ UNCHANGED <<variant, now, width, height, dpr, color, lastFill, loop>>
  /\ UNCHANGED Extra

\* One undo or redo call `r` made from a handler, and the render after it.
Rewind(op, r) ==
  /\ lastOp # "init"
  /\ sideOps < MaxSideOps
  /\ sideOps' = sideOps + 1
  /\ historyStep' = r.historyStep
  /\ canvas' = r.canvas
  /\ keyHistory' = keyHandlerHistory(historyStep, r.historyStep, history, keyHistory)
  /\ lastOp' = op
  /\ prev' = View
  /\ UNCHANGED <<variant, history, now, width, height, dpr, color, lastFill, loop>>
  /\ UNCHANGED Extra

\* The buttons' disabled={historyStep <= 0} and
\* disabled={historyStep >= history.length - 1}, negated: the button is enabled.
canUndo_atZero(step, length) == ~(step < 0)

canUndo(step, length) == ~(step <= 0)

canRedo(step, length) == ~(step >= length - 1)

\* The Undo and Redo buttons: onClick={undo}, onClick={redo} of this render.
\* A button that is disabled receives no click.
UndoButton ==
  /\ canUndo(historyStep, Len(history))
  /\ Rewind("undo", undo(history, historyStep, canvas))

RedoButton ==
  /\ canRedo(historyStep, Len(history))
  /\ Rewind("redo", redo(history, historyStep, canvas))

\* Ctrl+Z and Ctrl+Y / Ctrl+Shift+Z: the undo and redo the keydown handler
\* captured when it was registered.
KeyUndo == Rewind("keyUndo", undo(keyHistory, historyStep, canvas))

KeyRedo == Rewind("keyRedo", redo(keyHistory, historyStep, canvas))

Next ==
  \/ Mount
  \/ finishDrawing
  \/ finishDrawingNoMove
  \/ clearCanvas
  \/ UndoButton
  \/ RedoButton
  \/ KeyUndo
  \/ KeyRedo

Spec == Init /\ [][Next]_vars

----------------------------------------------------------------------------
(* The fill tool.  Here the canvas is a pixel buffer.  A run starts after  *)
(* the mount and one drawing gesture: the brush has painted some pixels    *)
(* black on the background, and the history holds the blank canvas and     *)
(* that drawing.                                                           *)

\* the 2px border of the canvas element of the first copy; the canvas of
\* the second copy has none (its container has)
CanvasBorder == 2

\* canvas.width and canvas.height, in buffer pixels
CanvasWidth == IF variant = 1 THEN width ELSE width * dpr

CanvasHeight == IF variant = 1 THEN height ELSE height * dpr

\* canvas.getBoundingClientRect(): the border box, in CSS pixels
RectWidth == IF variant = 1 THEN width + 2 * CanvasBorder ELSE width

RectHeight == IF variant = 1 THEN height + 2 * CanvasBorder ELSE height

\* the canvas as the mount leaves it: transparent, or filled white
Background(v) == IF v = 1 THEN Transparent ELSE White

Buffers(w, h, colours) == [0..(w * h - 1) -> colours]

ColorValues ==
  {<<"#", "0", "0", "0", "0", "0", "0">>, <<"#", "f", "f", "f", "f", "f", "f">>}

\* variant, width, height, devicePixelRatio of the canvases tried
Canvases ==
  {c \in [variant : {1, 2}, width : 1..MaxSide, height : 1..MaxSide, dpr : 1..MaxDpr] :
     /\ c.variant = 1 => c.dpr = 1
     /\ (c.width * c.dpr) * (c.height * c.dpr) <= MaxPixels}

InitFill ==
  /\ \E c \in Canvases :
       /\ variant = c.variant
       /\ width = c.width
       /\ height = c.height
       /\ dpr = c.dpr
       /\ canvas \in Buffers(c.width * c.dpr, c.height * c.dpr,
                             {Background(c.variant), Black})
       /\ history = <<[imageData |-> [i \in 0..((c.width * c.dpr) * (c.height * c.dpr) - 1)
                                        |-> Background(c.variant)],
                       timestamp |-> 1],
                      [imageData |-> canvas, timestamp |-> 2]>>
  /\ historyStep = 1
  /\ keyHistory = history
  /\ now = 2
  /\ sideOps = 0
  /\ color \in ColorValues
  /\ lastOp = "push"
  /\ prev = [history |-> SubSeq(history, 1, 1), historyStep |-> 0,
             canvas |-> history[1].imageData, keyHistory |-> SubSeq(history, 1, 1),
             lastOp |-> "push"]
  /\ lastFill = NoFill
  /\ loop = NoLoop
  /\ heap = <<>>
  /\ gesture = NoGesture
  /\ recentColors = <<>>

\* The same with a larger canvas of a single colour.
InitUniform ==
  /\ variant \in {1, 2}
  /\ width = UniformSide
  /\ height = UniformSide
  /\ dpr = 1
  /\ \E c \in {Transparent, Black, White} :
       canvas = [i \in 0..(UniformSide * UniformSide - 1) |-> c]
  /\ history = <<[imageData |-> [i \in 0..(UniformSide * UniformSide - 1)
                                   |-> Background(variant)],
                  timestamp |-> 1],
                 [imageData |-> canvas, timestamp |-> 2]>>
  /\ historyStep = 1
  /\ keyHistory = history
  /\ now = 2
  /\ sideOps = 0
  /\ color \in ColorValues
  /\ lastOp = "push"
  /\ prev = [history |-> SubSeq(history, 1, 1), historyStep |-> 0,
             canvas |-> history[1].imageData, keyHistory |-> SubSeq(history, 1, 1),
             lastOp |-> "push"]
  /\ lastFill = NoFill
  /\ loop = NoLoop
  /\ heap = <<>>
  /\ gesture = NoGesture
  /\ recentColors = <<>>

\* handleCanvasClick with the fill tool selected, for a click offsetX,
\* offsetY CSS pixels right of and below the corner of the rectangle of
\* getBoundingClientRect: getCoordinates, floodFill, and in floodFill
\* putImageData and saveToHistory unless it returned early.
handleCanvasClick(offsetX, offsetY) ==
  \E res \in {IF variant = 1
                THEN floodFillV1(canvas, CanvasWidth, CanvasHeight,
                                 MathFloor(offsetX, 1), MathFloor(offsetY, 1), color)
                ELSE floodFillV2(canvas, width, height, dpr,
                                 offsetX * CanvasWidth, RectWidth * dpr,
                                 offsetY * CanvasHeight, RectHeight * dpr, color)} :
    LET startX == IF variant = 1 THEN MathFloor(offsetX, 1)
                  ELSE MathFloor(offsetX * CanvasWidth, RectWidth * dpr)
        startY == IF variant = 1 THEN MathFloor(offsetY, 1)
                  ELSE MathFloor(offsetY * CanvasHeight, RectHeight * dpr)
        r == saveToHistory(history, historyStep, res.pixels, now + 1, HistoryLimit(variant))
    IN  /\ lastFill' = [ran |-> TRUE, clicks |-> lastFill.clicks + 1,
                        offsetX |-> offsetX, offsetY |-> offsetY,
                        startX |-> startX, startY |-> startY,
                        returned |-> res.returned, written |-> Cardinality(res.visited),
                        iterations |-> res.iterations, left |-> Len(res.stack)]
        /\ lastOp' = "fill"
        /\ prev' = View
        /\ IF res.returned = "early"
             THEN UNCHANGED <<canvas, history, historyStep, keyHistory, now>>
             ELSE /\ canvas' = res.pixels
                  /\ history' = r.history
                  /\ historyStep' = r.historyStep
                  /\ keyHistory' = keyHandlerHistory(historyStep, r.historyStep, r.history,
                                                     keyHistory)
                  /\ now' = now + 1
        /\ UNCHANGED <<variant, width, height, dpr, color, sideOps, loop>>
        /\ UNCHANGED Extra

\* The first click of a run.
FillClick ==
  /\ ~lastFill.ran
  /\ \E offsetX \in 0..(RectWidth - 1), offsetY \in 0..(RectHeight - 1) :
       handleCanvasClick(offsetX, offsetY)

\* A further click at the same place, with the same colour.
FillAgain ==
  /\ lastFill.ran
  /\ lastFill.clicks < MaxFills
  /\ handleCanvasClick(lastFill.offsetX, lastFill.offsetY)

NextFill == FillClick \/ FillAgain

SpecFill == (InitFill \/ InitUniform) /\ [][NextFill]_vars

----------------------------------------------------------------------------
(* floodFill followed one loop iteration at a time, with the coordinates   *)
(* at which the pixel buffer is read (getPixelColor) and written           *)
(* (setPixelColor).  JavaScript runs the call to completion: once entered, *)
(* the loop body and the code after the loop are always taken.             *)

\* the seed handleCanvasClick passes for a click at offsetX, offsetY
ClickSeed(offsetX, offsetY) ==
  IF variant = 1
    THEN [x |-> MathFloor(offsetX, 1), y |-> MathFloor(offsetY, 1)]
    ELSE [x |-> MathFloor(offsetX * CanvasWidth, RectWidth * dpr),
          y |-> MathFloor(offsetY * CanvasHeight, RectHeight * dpr)]

\* floodFill up to the loop: the read of targetColor and the early return
floodFillEnter(offsetX, offsetY) ==
  LET seed == ClickSeed(offsetX, offsetY)
      targetColor == getPixelColor(canvas, seed.x, seed.y, CanvasWidth)
      fillColor == hexToRgb(color)
      early == colorsMatch(targetColor, fillColor)
  IN  /\ loop' = [pc |-> IF early THEN "returned" ELSE "loop",
                  st |-> FillStart(canvas, seed.x, seed.y),
                  targetColor |-> targetColor,
                  fillColor |-> fillColor,
                  maxIterations |-> width * height * dpr * dpr,
                  reads |-> {<<seed.x, seed.y>>},
                  writes |-> {}]
      /\ lastFill' = [lastFill EXCEPT !.ran = TRUE, !.clicks = lastFill.clicks + 1,
                                      !.offsetX = offsetX, !.offsetY = offsetY,
                                      !.startX = seed.x, !.startY = seed.y,
                                      !.returned = IF early THEN "early" ELSE "running"]
      /\ UNCHANGED <<variant, history, historyStep, canvas, keyHistory, now, sideOps,
                     width, height, dpr, color, lastOp, prev>>
      /\ UNCHANGED Extra

FillEnter ==
  /\ loop.pc = "idle"
  /\ \E offsetX \in 0..(RectWidth - 1), offsetY \in 0..(RectHeight - 1) :
       floodFillEnter(offsetX, offsetY)

\* the loop condition of the copy that is running
LoopCondition ==
  IF variant = 1 THEN whileV1(loop.st) ELSE whileV2(loop.st, loop.maxIterations)

\* one run of the loop body
LoopBody ==
  /\ loop.pc = "loop"
  /\ LoopCondition
  /\ LET top == loop.st.stack[Len(loop.st.stack)]
         at == <<top.x, top.y>>
         next == fillStep(loop.st, CanvasWidth, CanvasHeight, loop.targetColor, loop.fillColor)
         inBounds == ~(top.x < 0 \/ top.x >= CanvasWidth \/ top.y < 0 \/ top.y >= CanvasHeight)
         read == at \notin loop.st.visited /\ inBounds
     IN  loop' = [loop EXCEPT !.st = next,
                              !.reads = IF read THEN loop.reads \cup {at} ELSE loop.reads,
                              !.writes = IF next.visited # loop.st.visited
                                           THEN loop.writes \cup {at} ELSE loop.writes]
  /\ UNCHANGED <<variant, history, historyStep, canvas, keyHistory, now, sideOps,
                 width, height, dpr, color, lastOp, prev, lastFill>>
  /\ UNCHANGED Extra

\* after the loop: putImageData and saveToHistory
LoopExit ==
  /\ loop.pc = "loop"
  /\ ~LoopCondition
  /\ LET r == saveToHistory(history, historyStep, loop.st.pixels, now + 1,
                            HistoryLimit(variant))
     IN  /\ canvas' = loop.st.pixels
         /\ history' = r.history
         /\ historyStep' = r.historyStep
         /\ keyHistory' = keyHandlerHistory(historyStep, r.historyStep, r.history, keyHistory)
  /\ now' = now + 1
  /\ loop' = [loop EXCEPT !.pc = "done"]
  /\ lastFill' = [lastFill EXCEPT !.returned = "done",
                                  !.written = Cardinality(loop.st.visited),
                                  !.iterations = loop.st.iterations,
                                  !.left = Len(loop.st.stack)]
  /\ lastOp' = "fill"
  /\ prev' = View
  /\ UNCHANGED <<variant, width, height, dpr, color, sideOps>>
  /\ UNCHANGED Extra

\* the buffers on which the loop is followed: the small ones and the
\* single-colour one
InitLoop ==
  \/ InitFill /\ CanvasWidth * CanvasHeight <= MaxLoopPixels
  \/ InitUniform

NextLoop == FillEnter \/ LoopBody \/ LoopExit

SpecLoop == InitLoop /\ [][NextLoop]_vars /\ WF_vars(LoopBody) /\ WF_vars(LoopExit)

\* hexToRgb on its own: floodFill is entered with `color` holding any of
\* these strings, well formed or not.  (The colour input of the toolbar
\* only gives well-formed ones.)
HexStrings ==
  UNION {[1..n -> {"#", "F"}] : n \in 0..MaxHexLen}
    \cup ColorValues
    \cup {<<"#", "1", "a", "B", "2", "c", "3">>, <<"0", "9", "a", "f", "A", "F">>,
          <<"#", "g", "g", "g", "g", "g", "g">>, <<"#", "F", "F", "F", "F", "F", "g">>,
          <<"F", "F", "F", "F", "F", "F", "#">>}

InitHex ==
  /\ variant \in {1, 2}
  /\ width = 1
  /\ height = 1
  /\ dpr = 1
  /\ canvas = [i \in 0..0 |-> Background(variant)]
  /\ history = <<[imageData |-> canvas, timestamp |-> 1]>>
  /\ historyStep = 0
  /\ keyHistory = history
  /\ now = 1
  /\ sideOps = 0
  /\ color \in HexStrings
  /\ lastOp = "push"
  /\ prev = [history |-> <<>>, historyStep |-> -1, canvas |-> canvas,
             keyHistory |-> <<>>, lastOp |-> "init"]
  /\ lastFill = NoFill
  /\ loop = NoLoop
  /\ heap = <<>>
  /\ gesture = NoGesture
  /\ recentColors = <<>>

SpecHex == InitHex /\ [][NextLoop]_vars

----------------------------------------------------------------------------
(* Snapshots as references.  getImageData returns a new ImageData object;  *)
(* a snapshot in `history` holds a reference to one.  Here `heap` is the   *)
(* sequence of the objects allocated so far, a reference is an index into  *)
(* it, history[i].imageData is a reference, and `canvas` is the pixel      *)
(* content of the canvas itself.                                           *)

getImageData_shared(h) == IF Len(h) > 0 THEN Len(h) ELSE 1

\* ctx.getImageData(...): the reference of a new object
getImageData(h) == Len(h) + 1

\* the heap once the object `ref` holds `pixels`
storeImageData(h, ref, pixels) ==
  IF ref = Len(h) + 1 THEN Append(h, pixels) ELSE [h EXCEPT ![ref] = pixels]

\* saveToHistory with the canvas showing `pixels`, on top of heap h
HeapSave(op, h, pixels) ==
  LET imageData == getImageData(h)
      r == saveToHistory(history, historyStep, imageData, now + 1, HistoryLimit(variant))
  IN  /\ sideOps < MaxHeapOps
      /\ sideOps' = sideOps + 1
      /\ heap' = storeImageData(h, imageData, pixels)
      /\ canvas' = pixels
      /\ history' = r.history
      /\ historyStep' = r.historyStep
      /\ keyHistory' = keyHandlerHistory(historyStep, r.historyStep, r.history, keyHistory)
      /\ now' = now + 1
      /\ lastOp' = op
      /\ prev' = View
      /\ UNCHANGED <<variant, width, height, dpr, color, lastFill, loop, gesture, recentColors>>

\* a brush stroke over one pixel, saved by finishDrawing
HeapStroke ==
  \E i \in DOMAIN canvas :
    HeapSave("push", heap, [canvas EXCEPT ![i] = hexToRgb(color)])

\* clearCanvas
HeapClear == HeapSave("push", heap, [i \in DOMAIN canvas |-> Background(variant)])

\* floodFill: its own getImageData, the loop writing into that object,
\* putImageData, saveToHistory
HeapFill ==
  \E offsetX \in 0..(RectWidth - 1), offsetY \in 0..(RectHeight - 1) :
    LET seed == ClickSeed(offsetX, offsetY)
        imageData == getImageData(heap)
        h1 == storeImageData(heap, imageData, canvas)
        res == IF variant = 1
                 THEN floodFillV1(h1[imageData], CanvasWidth, CanvasHeight, seed.x, seed.y, color)
                 ELSE floodFillV2(h1[imageData], width, height, dpr, seed.x, 1, seed.y, 1, color)
        h2 == [h1 EXCEPT ![imageData] = res.pixels]
    IN  /\ res.returned = "done"
        /\ HeapSave("fill", h2, h2[imageData])

\* the Undo and Redo buttons: putImageData copies the object's pixels
HeapRewind(op, r) ==
  /\ sideOps < MaxHeapOps
  /\ sideOps' = sideOps + 1
  /\ historyStep' = r.historyStep
  /\ canvas' = IF r.canvas = 0 THEN canvas ELSE heap[r.canvas]
  /\ keyHistory' = keyHandlerHistory(historyStep, r.historyStep, history, keyHistory)
  /\ lastOp' = op
  /\ prev' = View
  /\ UNCHANGED <<variant, history, now, width, height, dpr, color, lastFill, loop,
                 heap, gesture, recentColors>>

HeapUndo ==
  /\ canUndo(historyStep, Len(history))
  /\ HeapRewind("undo", undo(history, historyStep, 0))

HeapRedo ==
  /\ canRedo(historyStep, Len(history))
  /\ HeapRewind("redo", redo(history, historyStep, 0))

\* after the mount effect on a canvas of HeapWidth x 1 pixels
InitHeap ==
  /\ variant \in {1, 2}
  /\ width = HeapWidth
  /\ height = 1
  /\ dpr = 1
  /\ canvas = [i \in 0..(HeapWidth - 1) |-> Background(variant)]
  /\ heap = <<canvas>>
  /\ history = <<[imageData |-> 1, timestamp |-> 1]>>
  /\ historyStep = 0
  /\ keyHistory = history
  /\ now = 1
  /\ sideOps = 0
  /\ color \in ColorValues
  /\ lastOp = "push"
  /\ prev = [history |-> <<>>, historyStep |-> -1, canvas |-> canvas,
             keyHistory |-> <<>>, lastOp |-> "init"]
  /\ lastFill = NoFill
  /\ loop = NoLoop
  /\ gesture = NoGesture
  /\ recentColors = <<>>

NextHeap == HeapStroke \/ HeapClear \/ HeapFill \/ HeapUndo \/ HeapRedo

SpecHeap == InitHeap /\ [][NextHeap]_vars

----------------------------------------------------------------------------
(* Pointer gestures.  The canvas is one row of GestureWidth pixels and a   *)
(* point is the x that getCoordinates returns, already an integer inside   *)
(* the canvas.  Stroking a path paints the pixels of its segments with the *)
(* stroke colour; the line tool stands for the three shape tools, which    *)
(* differ only in the path they build, and the brush for the eraser, which *)
(* differs only in the composite operation.  The events are those the      *)
(* element is bound to; a click follows the mouseup of a press that began  *)
(* on the element; a frame callback runs between two events.               *)

Tools == {"brush", "line", "fill"}

Points == 0..(GestureWidth - 1)

\* ctx.stroke() with the current path `path`: a path of fewer than two
\* points paints nothing
stroke(pixels, path, c) ==
  [i \in DOMAIN pixels |->
     IF \E k \in 1..(Len(path) - 1) :
          \/ path[k] <= i /\ i <= path[k + 1]
          \/ path[k + 1] <= i /\ i <= path[k]
       THEN c
       ELSE pixels[i]]

\* ctx.closePath(): a segment back to the first point of the path
closePath(path) == IF Len(path) >= 2 THEN Append(path, path[1]) ELSE path

\* clearRect over the whole canvas
clearRect(pixels) == [i \in DOMAIN pixels |-> Transparent]

\* the path a shape tool builds between beginPath() and stroke(); the
\* switch has no case for another tool
shapePath(tool, start, end) == IF tool = "line" THEN <<start, end>> ELSE <<>>

\* First copy, drawShapePreview: getImageData of the main canvas put back
\* where it was read, then the shape stroked on the main canvas.
drawShapePreviewV1(pixels, tool, start, end, c) ==
  LET currentState == pixels
  IN  stroke(currentState, shapePath(tool, start, end), c)

\* Second copy, drawShapePreview: the overlay cleared, then the shape
\* stroked on the overlay.
drawShapePreviewV2(overlay, tool, start, end, c) ==
  stroke(clearRect(overlay), shapePath(tool, start, end), c)

finishDrawingReturns_never(isDrawing) == FALSE

\* finishDrawing: if (!isDrawing) return;
finishDrawingReturns(isDrawing) == ~isDrawing

\* The end of a handler and the render that follows it: g is the hooks'
\* state and the refs it leaves, canv the main canvas, and save tells
\* whether it called saveToHistory.
Handled(op, g, canv, save) ==
  LET r == saveToHistory(history, historyStep, canv, now + 1, HistoryLimit(variant))
  IN  /\ gesture.events < MaxGestureEvents
      /\ gesture' = [g EXCEPT !.events = gesture.events + 1,
                              !.wasDrawing = gesture.isDrawing]
      /\ canvas' = canv
      /\ IF save
           THEN /\ history' = r.history
                /\ historyStep' = r.historyStep
                /\ keyHistory' = keyHandlerHistory(historyStep, r.historyStep, r.history,
                                                   keyHistory)
                /\ now' = now + 1
           ELSE UNCHANGED <<history, historyStep, keyHistory, now>>
      /\ lastOp' = op
      /\ prev' = View
      /\ UNCHANGED <<variant, width, height, dpr, color, sideOps, lastFill, loop,
                     heap, recentColors>>

\* setTool from the toolbar or a shortcut, between two gestures
selectTool ==
  \E t \in Tools :
    /\ gesture.phase = "idle"
    /\ ~gesture.isDrawing
    /\ t # gesture.tool
    /\ gesture' = [gesture EXCEPT !.tool = t, !.wasDrawing = FALSE]
    /\ lastOp' = "tool"
    /\ prev' = View
    /\ UNCHANGED <<variant, history, historyStep, canvas, keyHistory, now, sideOps,
                   width, height, dpr, color, lastFill, loop, heap, recentColors>>

\* onMouseDown={startDrawing}
onMouseDown ==
  \E point \in Points :
    /\ gesture.phase = "idle"
    /\ Handled("mousedown",
               [gesture EXCEPT !.isDrawing = TRUE,
                               !.startPoint = <<point>>,
                               !.pathPoints = IF variant = 2 THEN <<point>> ELSE @,
                               !.path = IF gesture.tool = "brush" THEN <<point>> ELSE @,
                               !.phase = "pressed",
                               !.position = point,
                               !.started = TRUE,
                               !.downTool = gesture.tool,
                               !.downPoint = point,
                               !.nowAtDown = now,
                               !.canvasAtDown = canvas,
                               !.recorded = {},
                               !.fillReturned = "none"],
               canvas, FALSE)

\* onMouseMove={draw}.  In the second copy draw records the point and, if
\* no frame is pending, requests one; the callback keeps the tool, the
\* startPoint and the point of this call.
onMouseMove ==
  \E point \in Points :
    /\ gesture.phase \in {"idle", "pressed"}
    /\ IF ~gesture.isDrawing
         THEN Handled("mousemove", [gesture EXCEPT !.position = point], canvas, FALSE)
         ELSE LET g == [gesture EXCEPT !.position = point,
                                       !.recorded = @ \cup {point}]
              IN  IF variant = 1
                    THEN IF gesture.tool = "brush"
                           THEN Handled("mousemove",
                                        [g EXCEPT !.path = Append(@, point)],
                                        stroke(canvas, Append(gesture.path, point),
                                               hexToRgb(color)),
                                        FALSE)
                           ELSE IF gesture.startPoint # <<>>
                                  THEN Handled("mousemove",
                                               [g EXCEPT !.path = shapePath(gesture.tool,
                                                                            gesture.startPoint[1],
                                                                            point)],
                                               drawShapePreviewV1(canvas, gesture.tool,
                                                                  gesture.startPoint[1], point,
                                                                  hexToRgb(color)),
                                               FALSE)
                                  ELSE Handled("mousemove", g, canvas, FALSE)
                    ELSE Handled("mousemove",
                                 [g EXCEPT !.pathPoints = Append(@, point),
                                           !.animationFrameId =
                                             IF @ # <<>> THEN @
                                             ELSE <<[tool |-> gesture.tool,
                                                     startPoint |-> gesture.startPoint,
                                                     point |-> point]>>],
                                 canvas, FALSE)

\* The callback given to requestAnimationFrame by draw (second copy).
onAnimationFrame ==
  /\ gesture.animationFrameId # <<>>
  /\ gesture.phase # "released"
  /\ LET f == gesture.animationFrameId[1]
         n == Len(gesture.pathPoints)
         path == IF n > 0 THEN gesture.pathPoints ELSE gesture.path
     IN  IF f.tool = "brush"
           THEN Handled("frame",
                        [gesture EXCEPT !.path = path,
                                        !.pathPoints = IF n > 0 THEN <<gesture.pathPoints[n]>>
                                                       ELSE <<Undefined>>,
                                        !.animationFrameId = <<>>],
                        stroke(canvas, path, hexToRgb(color)), FALSE)
           ELSE IF f.startPoint # <<>>
                  THEN Handled("frame",
                               [gesture EXCEPT !.preview = drawShapePreviewV2(@, f.tool,
                                                                              f.startPoint[1],
                                                                              f.point,
                                                                              hexToRgb(color)),
                                               !.animationFrameId = <<>>],
                               canvas, FALSE)
                  ELSE Handled("frame", [gesture EXCEPT !.animationFrameId = <<>>],
                               canvas, FALSE)

\* finishDrawing, bound to mouseup and to mouseout; phase is the state of
\* the pointer after the event.
finishDrawingOn(op, phase) ==
  IF finishDrawingReturns(gesture.isDrawing)
    THEN Handled(op, [gesture EXCEPT !.phase = phase], canvas, FALSE)
    ELSE LET g == [gesture EXCEPT !.isDrawing = FALSE,
                                  !.startPoint = <<>>,
                                  !.pathPoints = <<>>,
                                  !.phase = phase]
             n == Len(gesture.pathPoints)
         IN  IF gesture.tool = "brush"
               THEN Handled(op, [g EXCEPT !.path = closePath(@)], canvas, TRUE)
               ELSE IF variant = 2 /\ gesture.startPoint # <<>> /\ n > 0
                      THEN LET path == shapePath(gesture.tool, gesture.startPoint[1],
                                                 gesture.pathPoints[n])
                           IN  Handled(op,
                                       [g EXCEPT !.path = path,
                                                 !.preview = clearRect(@)],
                                       stroke(canvas, path, hexToRgb(color)), TRUE)
                      ELSE Handled(op, g, canvas, TRUE)

\* onMouseUp={finishDrawing}
onMouseUp ==
  /\ gesture.phase = "pressed"
  /\ finishDrawingOn("mouseup", "released")

\* onMouseOut={finishDrawing}: the pointer leaves the element, with the
\* button up or down
onMouseOut ==
  /\ gesture.phase \in {"idle", "pressed"}
  /\ finishDrawingOn("mouseout", gesture.phase)

\* onClick={handleCanvasClick}, at the position of the mouseup
onClick ==
  /\ gesture.phase = "released"
  /\ IF gesture.tool = "fill" /\ (variant = 2 => ~gesture.isDrawing)
       THEN \E res \in {IF variant = 1
                          THEN floodFillV1(canvas, width, height,
                                           MathFloor(gesture.position, 1), MathFloor(0, 1),
                                           color)
                          ELSE floodFillV2(canvas, width, height, dpr,
                                           gesture.position, 1, 0, 1, color)} :
              Handled("click",
                      [gesture EXCEPT !.phase = "idle", !.fillReturned = res.returned],
                      res.pixels, res.returned # "early")
       ELSE Handled("click", [gesture EXCEPT !.phase = "idle"], canvas, FALSE)

\* The component after its mount effect, on a canvas of GestureWidth x 1.
InitGesture ==
  /\ variant \in {1, 2}
  /\ width = GestureWidth
  /\ height = 1
  /\ dpr = 1
  /\ canvas = [i \in 0..(GestureWidth - 1) |-> Background(variant)]
  /\ history = <<[imageData |-> canvas, timestamp |-> 1]>>
  /\ historyStep = 0
  /\ keyHistory = history
  /\ now = 1
  /\ sideOps = 0
  /\ color \in ColorValues
  /\ lastOp = "push"
  /\ prev = [history |-> <<>>, historyStep |-> -1, canvas |-> canvas,
             keyHistory |-> <<>>, lastOp |-> "init"]
  /\ lastFill = NoFill
  /\ loop = NoLoop
  /\ heap = <<>>
  /\ gesture = [NoGesture EXCEPT !.preview = [i \in 0..(GestureWidth - 1) |-> Transparent],
                                 !.canvasAtDown = canvas]
  /\ recentColors = <<>>

NextGesture ==
  \/ selectTool
  \/ onMouseDown
  \/ onMouseMove
  \/ onAnimationFrame
  \/ onMouseUp
  \/ onMouseOut
  \/ onClick

SpecGesture == InitGesture /\ [][NextGesture]_vars

----------------------------------------------------------------------------
(* The recent colours of the toolbar (first copy; the colour picker of the *)
(* second copy calls setColor directly).  A colour is the string the       *)
(* picker delivers, "#rrggbb" in lower case.  addToRecentColors compares   *)
(* colours only for equality, so of the colours that are not in the list   *)
(* the picker offers one.                                                  *)

\* .slice(0, 8)
RecentColorsLimit == 8

Palette(k) ==
  <<"#", "0", "0", "0", "0", HexLower[(k \div 16) + 1], HexLower[(k % 16) + 1]>>

\* s.slice(0, n)
slice(s, n) == SubSeq(s, 1, IF Len(s) < n THEN Len(s) ELSE n)

addToRecentColors_noFilter(list, newColor) ==
  IF Len(list) > 0 /\ list[1] = newColor
    THEN list
    ELSE slice(<<newColor>> \o list, RecentColorsLimit)

\* the updater that addToRecentColors gives to setRecentColors
addToRecentColors(list, newColor) ==
  IF Len(list) > 0 /\ list[1] = newColor
    THEN list
    ELSE LET keep(c) == c # newColor
             filtered == SelectSeq(list, keep)
         IN  slice(<<newColor>> \o filtered, RecentColorsLimit)

ColorsView == [recentColors |-> recentColors, color |-> color, lastOp |-> lastOp]

\* onChange of the colour input: handleColorChange(e.target.value)
handleColorChange(newColor) ==
  /\ newColor # color
  /\ color' = newColor
  /\ recentColors' = addToRecentColors(recentColors, newColor)
  /\ lastOp' = "color"
  /\ prev' = ColorsView
  /\ UNCHANGED <<variant, history, historyStep, canvas, keyHistory, now,
                 width, height, dpr, lastFill, loop, heap, gesture>>

\* the picker delivers a colour that is not among the recent colours
PickNewColor ==
  \E k \in 0..(MaxColors - 1) :
    /\ \A i \in DOMAIN recentColors : recentColors[i] # Palette(k)
    /\ Palette(k) # color
    /\ \A j \in 0..(k - 1) :
         \/ Palette(j) = color
         \/ \E i \in DOMAIN recentColors : recentColors[i] = Palette(j)
    /\ handleColorChange(Palette(k))
    /\ UNCHANGED sideOps

\* the picker delivers one of the recent colours
PickRecentColor ==
  \E i \in DOMAIN recentColors :
    /\ sideOps < MaxRepicks
    /\ sideOps' = sideOps + 1
    /\ handleColorChange(recentColors[i])

\* a recent-colour button: onClick={() => setColor(recentColor)}
UseRecentColor ==
  \E i \in DOMAIN recentColors :
    /\ recentColors[i] # color
    /\ sideOps < MaxRepicks
    /\ sideOps' = sideOps + 1
    /\ color' = recentColors[i]
    /\ lastOp' = "swatch"
    /\ prev' = ColorsView
    /\ UNCHANGED <<variant, history, historyStep, canvas, keyHistory, now,
                   width, height, dpr, lastFill, loop, heap, gesture, recentColors>>

InitColors ==
  /\ variant = 1
  /\ history = <<>>
  /\ historyStep = -1
  /\ canvas = BlankImage
  /\ keyHistory = <<>>
  /\ now = 0
  /\ sideOps = 0
  /\ width = 0
  /\ height = 0
  /\ dpr = 1
  /\ color = <<"#", "0", "0", "0", "0", "0", "0">>
  /\ lastOp = "init"
  /\ prev = [recentColors |-> <<>>, color |-> color, lastOp |-> "init"]
  /\ lastFill = NoFill
  /\ loop = NoLoop
  /\ heap = <<>>
  /\ gesture = NoGesture
  /\ recentColors = <<>>

NextColors == PickNewColor \/ PickRecentColor \/ UseRecentColor

SpecColors == InitColors /\ [][NextColors]_vars

----------------------------------------------------------------------------
(* Properties of the history.                                              *)

Limit == HistoryLimit(variant)

\* the snapshot a save made at the current clock value holds
Newest == [imageData |-> canvas, timestamp |-> now]

UndoOps == {"undo", "keyUndo"}

RedoOps == {"redo", "keyRedo"}

\* C1: in both copies (limit 50 and limit 30) the history never holds more
\* snapshots than the limit, and when a save follows a save that left the
\* history at the limit, the history is again exactly at the limit: in a run
\* of consecutive saves the length stays at the limit once it is reached.
HistoryWithinLimit ==
  /\ [](Len(history) <= Limit)
  /\ [][(lastOp = "push" /\ Len(history) = Limit /\ lastOp' = "push" /\ now' = now + 1)
          => Len(history') = Limit]_vars

\* a save that followed a save at the limit, with the oldest snapshot gone
HistoryWithinLimitWitness ==
  /\ lastOp = "push"
  /\ prev.lastOp = "push"
  /\ Len(prev.history) = Limit
  /\ Len(history) = Limit
  /\ history[1].timestamp > 1

\* C2: 0 <= historyStep < history.length whenever the history is not
\* empty, and historyStep is -1 only when the history is empty.
CursorInRange ==
  /\ historyStep >= -1
  /\ Len(history) > 0 => (0 <= historyStep /\ historyStep < Len(history))
  /\ historyStep = -1 => Len(history) = 0

\* the cursor at its lower end after an undo, below a longer history
CursorInRangeWitness ==
  /\ lastOp \in UndoOps
  /\ historyStep = 0
  /\ prev.historyStep = 1
  /\ Len(history) > 1

BranchDiscarded ==
  (lastOp = "push" /\ prev.historyStep < Len(prev.history) - 1) =>
    /\ historyStep = Len(history) - 1
    /\ \A i \in (prev.historyStep + 2)..Len(prev.history) :
         \A j \in 1..Len(history) : history[j] # prev.history[i]

\* a save made two undos below the end
BranchDiscardedWitness ==
  /\ lastOp = "push"
  /\ prev.lastOp \in UndoOps
  /\ prev.historyStep = Len(prev.history) - 3
  /\ prev.historyStep >= 0

\* C5: undo with historyStep > 0 lowers historyStep by exactly one and puts
\* on the canvas the snapshot at the new historyStep; with historyStep = 0
\* or an empty history it changes neither historyStep, the history nor the
\* canvas.  Every call of undo is covered: the Undo button and Ctrl+Z.
UndoContract ==
  lastOp \in UndoOps =>
    /\ history = prev.history
    /\ IF prev.historyStep > 0
         THEN /\ historyStep = prev.historyStep - 1
              /\ canvas = history[historyStep + 1].imageData
         ELSE /\ historyStep = prev.historyStep
              /\ canvas = prev.canvas

\* Ctrl+Z after a save that evicted the oldest snapshot: the cursor moved
\* down by one but the canvas shows a snapshot that is not at the cursor
UndoRestoresStaleSnapshot ==
  /\ lastOp = "keyUndo"
  /\ prev.lastOp = "push"
  /\ prev.keyHistory # prev.history
  /\ historyStep = prev.historyStep - 1
  /\ canvas = prev.keyHistory[historyStep + 1].imageData
  /\ canvas # history[historyStep + 1].imageData

\* C6: redo with historyStep < history.length - 1 raises historyStep by
\* exactly one and puts on the canvas the snapshot at the new historyStep;
\* otherwise it changes neither historyStep, the history nor the canvas.
\* Every call of redo is covered: the Redo button and Ctrl+Y / Ctrl+Shift+Z.
RedoContract ==
  lastOp \in RedoOps =>
    /\ history = prev.history
    /\ IF prev.historyStep < Len(prev.history) - 1
         THEN /\ historyStep = prev.historyStep + 1
              /\ canvas = history[historyStep + 1].imageData
         ELSE /\ historyStep = prev.historyStep
              /\ canvas = prev.canvas

\* a redo has moved the cursor and changed the canvas
RedoContractWitness ==
  /\ lastOp \in RedoOps
  /\ prev.historyStep < Len(prev.history) - 1
  /\ historyStep = prev.historyStep + 1
  /\ canvas = history[historyStep + 1].imageData
  /\ canvas # prev.canvas

EvictsOldest ==
  /\ (lastOp = "push" /\ prev.historyStep + 2 > Limit) =>
       /\ Len(history) = Limit
       /\ \A i \in 1..(Limit - 1) : history[i] = prev.history[i + 1]
       /\ history[Limit] = Newest
       /\ \A j \in 1..Len(history) : history[j] # prev.history[1]
  /\ (lastOp = "push" /\ Len(prev.history) = Limit /\ prev.historyStep = Limit - 3) =>
       history = Append(SubSeq(prev.history, 1, Limit - 2), Newest)

\* a save that removed the oldest snapshot of a full history
EvictsOldestWitness ==
  /\ lastOp = "push"
  /\ prev.historyStep + 2 > Limit
  /\ Len(prev.history) = Limit
  /\ history[Limit].timestamp = Limit + 1

\* the end of the example: the first snapshot was evicted, two undos, a save
EvictionExampleReached ==
  /\ lastOp = "push"
  /\ Len(prev.history) = Limit
  /\ prev.historyStep = Limit - 3
  /\ prev.history[1].timestamp = 2
  /\ Len(history) = Limit - 1

----------------------------------------------------------------------------
(* Properties of floodFill.  Region is written from the definition of the  *)
(* claims (4-connected paths), not from the loop.                          *)

Coords(w, h) == (0..(w - 1)) \X (0..(h - 1))

\* sharing an edge: one step left, right, up or down
EdgeAdjacent(p, q) ==
  \/ p[1] = q[1] /\ (p[2] = q[2] + 1 \/ q[2] = p[2] + 1)
  \/ p[2] = q[2] /\ (p[1] = q[1] + 1 \/ q[1] = p[1] + 1)

\* sharing only a corner
CornerAdjacent(p, q) ==
  (p[1] = q[1] + 1 \/ q[1] = p[1] + 1) /\ (p[2] = q[2] + 1 \/ q[2] = p[2] + 1)

RECURSIVE Grow(_, _, _, _, _)
Grow(S, buf, w, h, target) ==
  LET more == {q \in Coords(w, h) \ S :
                 buf[q[2] * w + q[1]] = target /\ \E p \in S : EdgeAdjacent(p, q)}
  IN  IF more = {} THEN S ELSE Grow(S \cup more, buf, w, h, target)

\* the pixels joined to the seed by a path of edge-adjacent pixels that all
\* have the seed's colour in buf; empty for a seed outside the buffer
Region(buf, w, h, sx, sy) ==
  IF <<sx, sy>> \in Coords(w, h)
    THEN Grow({<<sx, sy>>}, buf, w, h, buf[sy * w + sx])
    ELSE {}

\* the region of the last fill, in the buffer as it was before the fill
LastRegion == Region(prev.canvas, CanvasWidth, CanvasHeight, lastFill.startX, lastFill.startY)

SeedInBounds == <<lastFill.startX, lastFill.startY>> \in Coords(CanvasWidth, CanvasHeight)

\* C9: in the first copy, for a seed inside the buffer whose colour is not
\* the fill colour, floodFill gives the fill colour to every pixel joined
\* to the seed by a 4-connected path of pixels of the seed's original
\* colour, and writes exactly as many pixels as that region has.
FillCoversRegion ==
  (/\ lastOp = "fill"
   /\ variant = 1
   /\ SeedInBounds
   /\ prev.canvas[lastFill.startY * CanvasWidth + lastFill.startX] # hexToRgb(color)) =>
    /\ \A p \in LastRegion : canvas[p[2] * CanvasWidth + p[1]] = hexToRgb(color)
    /\ lastFill.written = Cardinality(LastRegion)

\* the 5x5 buffer of one colour filled from (2,2): all 25 pixels written
FillCoversRegionWitness ==
  /\ lastOp = "fill"
  /\ variant = 1
  /\ width = 5
  /\ height = 5
  /\ lastFill.startX = 2
  /\ lastFill.startY = 2
  /\ prev.canvas = [i \in 0..24 |-> White]
  /\ canvas = [i \in 0..24 |-> Black]
  /\ lastFill.written = 25

\* C10: after floodFill, in either copy, every pixel that differs from the
\* buffer before the fill belongs to the seed's region: it is joined to the
\* seed by edge-adjacent pixels that all had the seed's colour.  So a pixel
\* of another colour, or one touching the region only by a corner, is
\* never changed.
FillStaysInRegion ==
  lastOp = "fill" =>
    \A p \in Coords(CanvasWidth, CanvasHeight) :
      canvas[p[2] * CanvasWidth + p[1]] # prev.canvas[p[2] * CanvasWidth + p[1]]
        => p \in LastRegion

\* a fill in the second copy that changed a pixel and left alone a pixel of
\* the same original colour that touches the changed one only by a corner
FillStaysInRegionWitness ==
  /\ lastOp = "fill"
  /\ variant = 2
  /\ \E p, q \in Coords(CanvasWidth, CanvasHeight) :
       /\ CornerAdjacent(p, q)
       /\ p \in LastRegion
       /\ q \notin LastRegion
       /\ prev.canvas[q[2] * CanvasWidth + q[1]] = prev.canvas[p[2] * CanvasWidth + p[1]]
       /\ canvas[p[2] * CanvasWidth + p[1]] # prev.canvas[p[2] * CanvasWidth + p[1]]
       /\ canvas[q[2] * CanvasWidth + q[1]] = prev.canvas[q[2] * CanvasWidth + q[1]]

\* the colour floodFill read at the seed of the last fill, and its fill colour
SeedColor == getPixelColor(prev.canvas, lastFill.startX, lastFill.startY, CanvasWidth)

FillColor == hexToRgb(color)

\* C11: floodFill changes no pixel and pushes no snapshot exactly when the
\* colour of the seed pixel equals the fill colour in all four channels; a
\* fill colour that differs from the seed's colour only in alpha counts as
\* different: the fill goes on, recolours the seed and pushes a snapshot.
FillSkippedIffSameColor ==
  lastOp = "fill" =>
    /\ (canvas = prev.canvas /\ history = prev.history) <=> (SeedColor = FillColor)
    /\ (/\ SeedInBounds
        /\ SeedColor.r = FillColor.r /\ SeedColor.g = FillColor.g /\ SeedColor.b = FillColor.b
        /\ SeedColor.a # FillColor.a) =>
         /\ canvas[lastFill.startY * CanvasWidth + lastFill.startX] = FillColor
         /\ Len(history) = Len(prev.history) + 1

\* a transparent seed filled with opaque black: only alpha differs
FillSkippedIffSameColorWitness ==
  /\ lastOp = "fill"
  /\ SeedInBounds
  /\ SeedColor = Transparent
  /\ FillColor = Black
  /\ canvas[lastFill.startY * CanvasWidth + lastFill.startX] = Black
  /\ Len(history) = Len(prev.history) + 1

\* a fill of a seed that already has the fill colour: nothing happened
FillSkippedReached ==
  /\ lastOp = "fill"
  /\ SeedInBounds
  /\ SeedColor = FillColor
  /\ canvas = prev.canvas
  /\ history = prev.history

\* C12: in both copies, a second floodFill at the same in-bounds seed with
\* the same colour changes no pixel: filling twice leaves the buffer that
\* filling once left.
FillTwiceSameAsOnce ==
  (lastOp = "fill" /\ lastFill.clicks = 2 /\ SeedInBounds) => canvas = prev.canvas

\* the second of two fills in the second copy; the first one changed the
\* buffer and pushed its snapshot, the second one left both alone
FillTwiceSameAsOnceWitness ==
  /\ lastOp = "fill"
  /\ lastFill.clicks = 2
  /\ SeedInBounds
  /\ variant = 2
  /\ Len(history) = 3
  /\ history[3].imageData # history[2].imageData
  /\ canvas = history[3].imageData
  /\ canvas = prev.canvas

\* C13: floodFill terminates: whenever the loop has been entered, the call
\* gets past it (to putImageData and saveToHistory); and in the second copy
\* the loop body has run at most (buffer width x buffer height) times.
FillTerminates ==
  /\ [](variant = 2 => loop.st.iterations <= CanvasWidth * CanvasHeight)
  /\ (loop.pc = "loop") ~> (loop.pc = "done")

\* a call of the first copy that ran its loop body more often than the
\* buffer has pixels, and finished
FillTerminatesWitness ==
  /\ variant = 1
  /\ loop.pc = "done"
  /\ loop.st.iterations > CanvasWidth * CanvasHeight
  /\ loop.st.stack = <<>>

\* a call of the second copy stopped when its loop body had run exactly
\* (buffer width x buffer height) times
FillStoppedAtLimit ==
  /\ variant = 2
  /\ loop.pc = "done"
  /\ loop.st.iterations = CanvasWidth * CanvasHeight
  /\ loop.st.stack # <<>>

\* what the loop of the first copy, which has no limit, makes of the buffer
\* of the last fill from the same seed with the same colour
UnlimitedFill ==
  floodFillV1(prev.canvas, CanvasWidth, CanvasHeight, lastFill.startX, lastFill.startY, color)

\* C14: in the second copy the iteration limit never decides: for every
\* buffer and in-bounds seed the loop ends with the work list empty, and
\* the buffer is the one the loop without the limit gives.
LimitNeverBinds ==
  (lastOp = "fill" /\ variant = 2 /\ SeedInBounds /\ lastFill.returned = "done") =>
    /\ lastFill.left = 0
    /\ canvas = UnlimitedFill.pixels

\* a 3x3 buffer of one colour filled from its centre in the second copy:
\* the loop stopped at 9 iterations with work left and 5 pixels written
LimitBinds ==
  /\ lastOp = "fill"
  /\ variant = 2
  /\ dpr = 1
  /\ width = 3
  /\ height = 3
  /\ lastFill.startX = 1
  /\ lastFill.startY = 1
  /\ \A i \in DOMAIN prev.canvas : prev.canvas[i] = White
  /\ lastFill.iterations = 9
  /\ lastFill.left > 0
  /\ lastFill.written = 5
  /\ Cardinality(UnlimitedFill.visited) = 9
  /\ canvas # UnlimitedFill.pixels

\* C15: during floodFill every read and every write of the pixel buffer is
\* at a coordinate with 0 <= x < width and 0 <= y < height, for every seed
\* the click handler can pass; the first read, of the seed's colour, is one
\* of them.
AccessInBounds ==
  \A at \in loop.reads \cup loop.writes : at \in Coords(CanvasWidth, CanvasHeight)

\* the first copy called with a seed right of the buffer, on the border of
\* the canvas element: the seed's colour was read at that coordinate
SeedReadOutOfBounds ==
  /\ variant = 1
  /\ loop.pc # "idle"
  /\ lastFill.offsetX >= CanvasBorder + width
  /\ lastFill.startX >= CanvasWidth
  /\ lastFill.startY < CanvasHeight
  /\ <<lastFill.startX, lastFill.startY>> \in loop.reads

\* C16: a fill whose seed is outside the buffer changes nothing: no pixel
\* of the buffer and no snapshot of the history.
OutsideSeedChangesNothing ==
  (lastOp = "fill" /\ ~SeedInBounds) =>
    /\ canvas = prev.canvas
    /\ history = prev.history
    /\ historyStep = prev.historyStep

\* a fill of the first copy with a seed below the buffer: no pixel changed,
\* yet a snapshot equal to the one before it was pushed
OutsideSeedPushesSnapshot ==
  /\ lastOp = "fill"
  /\ variant = 1
  /\ lastFill.startY >= CanvasHeight
  /\ canvas = prev.canvas
  /\ lastFill.written = 0
  /\ Len(history) = Len(prev.history) + 1
  /\ historyStep = prev.historyStep + 1
  /\ history[Len(history)].imageData = prev.history[Len(prev.history)].imageData

\* hex digits and their values, written out
DigitValue ==
  [ch \in {"0", "1", "2", "3", "4", "5", "6", "7", "8", "9",
           "a", "b", "c", "d", "e", "f", "A", "B", "C", "D", "E", "F"} |->
     CASE ch = "0" -> 0 [] ch = "1" -> 1 [] ch = "2" -> 2 [] ch = "3" -> 3
       [] ch = "4" -> 4 [] ch = "5" -> 5 [] ch = "6" -> 6 [] ch = "7" -> 7
       [] ch = "8" -> 8 [] ch = "9" -> 9
       [] ch \in {"a", "A"} -> 10 [] ch \in {"b", "B"} -> 11 [] ch \in {"c", "C"} -> 12
       [] ch \in {"d", "D"} -> 13 [] ch \in {"e", "E"} -> 14 [] ch \in {"f", "F"} -> 15]

\* the six digits of a string, without its leading '#' if it has one
SixDigits(str) == IF Len(str) = 7 /\ str[1] = "#" THEN Tail(str) ELSE str

\* exactly six hex digits with an optional leading '#'
WellFormedHex(str) ==
  /\ Len(str) = 6 \/ (Len(str) = 7 /\ str[1] = "#")
  /\ \A i \in 1..6 : SixDigits(str)[i] \in DOMAIN DigitValue

Channel(str, i) ==
  16 * DigitValue[SixDigits(str)[2 * i - 1]] + DigitValue[SixDigits(str)[2 * i]]

Colors == [r : 0..255, g : 0..255, b : 0..255, a : 0..255]

\* C17: the conversion of a hex string gives, for six hex digits with an
\* optional leading '#', the three parsed channels with alpha 255, and for
\* any other string an error: no colour at all, and so never black.
HexConversionFailsOnMalformed ==
  loop.pc # "idle" =>
    IF WellFormedHex(color)
      THEN loop.fillColor = [r |-> Channel(color, 1), g |-> Channel(color, 2),
                             b |-> Channel(color, 3), a |-> 255]
      ELSE loop.fillColor \notin Colors

\* floodFill entered with the string "#gggggg": the fill colour is black
MalformedHexGivesBlack ==
  /\ loop.pc # "idle"
  /\ color = <<"#", "g", "g", "g", "g", "g", "g">>
  /\ ~WellFormedHex(color)
  /\ loop.fillColor = [r |-> 0, g |-> 0, b |-> 0, a |-> 255]

\* a well-formed string of mixed case converted to its channels
WellFormedHexParsed ==
  /\ loop.pc # "idle"
  /\ color = <<"#", "1", "a", "B", "2", "c", "3">>
  /\ loop.fillColor = [r |-> 26, g |-> 178, b |-> 195, a |-> 255]

\* what the Undo / Redo button of the render before the last handler would
\* have done
ButtonUndo == undo(prev.history, prev.historyStep, prev.canvas)

ButtonRedo == redo(prev.history, prev.historyStep, prev.canvas)

\* C18: Ctrl+Z and Ctrl+Y / Ctrl+Shift+Z do what the Undo and Redo buttons
\* do, in every reachable state: the same historyStep and canvas result,
\* and afterwards the canvas shows history[historyStep] of the current
\* history, whatever saves (evicting or not), undos and redos came before.
ShortcutsSameAsButtons ==
  /\ lastOp = "keyUndo" =>
       /\ historyStep = ButtonUndo.historyStep
       /\ canvas = ButtonUndo.canvas
  /\ lastOp = "keyRedo" =>
       /\ historyStep = ButtonRedo.historyStep
       /\ canvas = ButtonRedo.canvas
  /\ lastOp \in {"keyUndo", "keyRedo"} =>
       /\ history = prev.history
       /\ canvas = history[historyStep + 1].imageData

\* Ctrl+Z where the Undo button would have shown another snapshot: the
\* canvas is not history[historyStep]
ShortcutDiffersFromButton ==
  /\ lastOp = "keyUndo"
  /\ historyStep = ButtonUndo.historyStep
  /\ canvas # ButtonUndo.canvas
  /\ ButtonUndo.canvas = history[historyStep + 1].imageData
  /\ Len(history) = Limit

\* the last save removed the oldest snapshot
Evicted == lastOp = "push" /\ prev.historyStep + 2 > Limit

\* C19 as stated: after a save without eviction historyStep is on the
\* snapshot just saved; after a save that evicted the oldest snapshot
\* historyStep is one short of the end, history.length - 2.
CursorShortOfTailAfterEviction ==
  lastOp = "push" =>
    IF Evicted
      THEN historyStep = Len(history) - 2
      ELSE historyStep = Len(history) - 1 /\ history[historyStep + 1] = Newest

\* C19 as the code has it: a save without eviction raises historyStep by
\* one; a save that evicts leaves historyStep as it was, setHistoryStep is
\* not called, and since the history was full with the cursor at its end
\* that value is again history.length - 1, on the snapshot just saved.
CursorKeptAfterEviction ==
  lastOp = "push" =>
    /\ IF Evicted
         THEN historyStep = prev.historyStep /\ Len(history) = Len(prev.history)
         ELSE historyStep = prev.historyStep + 1
    /\ historyStep # Len(history) - 2
    /\ history[historyStep + 1] = Newest

\* two evicting saves in a row, the cursor at the end after each
CursorKeptAfterEvictionWitness ==
  /\ Evicted
  /\ prev.lastOp = "push"
  /\ prev.historyStep = Limit - 1
  /\ historyStep = Limit - 1
  /\ Len(history) = Limit
  /\ history[1].timestamp = 3

\* C20: undo and redo, from a button or a shortcut, leave the history as
\* it was, its length and every snapshot, and leave historyStep within
\* 0..length-1; the length of the history changes only in a step that
\* saves (saveToHistory).
RewindKeepsHistory ==
  /\ []((lastOp \in UndoOps \cup RedoOps) =>
          /\ history = prev.history
          /\ 0 <= historyStep
          /\ historyStep <= Len(history) - 1)
  /\ [][Len(history') # Len(history) => (lastOp' = "push" /\ now' = now + 1)]_vars

\* two undos in a row below a full history: the cursor is two below the
\* end and the history still holds every snapshot
RewindKeepsHistoryWitness ==
  /\ lastOp \in UndoOps
  /\ prev.lastOp \in UndoOps
  /\ historyStep = Len(history) - 3
  /\ history = prev.history
  /\ Len(history) = Limit

\* C21: the conditions that enable the Undo and Redo buttons depend only on
\* historyStep and history.length, and in every reachable state agree with
\* the operations: Undo is enabled exactly when undo would move the cursor
\* (historyStep > 0), Redo exactly when redo would
\* (historyStep < history.length - 1).
ControlsAgreeWithOperations ==
  /\ canUndo(historyStep, Len(history)) <=> historyStep > 0
  /\ canUndo(historyStep, Len(history))
       <=> undo(history, historyStep, canvas).historyStep # historyStep
  /\ canRedo(historyStep, Len(history)) <=> historyStep < Len(history) - 1
  /\ canRedo(historyStep, Len(history))
       <=> redo(history, historyStep, canvas).historyStep # historyStep

\* a full history with the cursor inside it, both buttons enabled, right
\* after the Undo button was used
ControlsAgreeWithOperationsWitness ==
  /\ lastOp = "undo"
  /\ Len(history) = Limit
  /\ canUndo(historyStep, Len(history))
  /\ canRedo(historyStep, Len(history))
  /\ ~canRedo(prev.historyStep, Len(prev.history))

\* the references held by the snapshots of the history
SnapshotRefs == {history[j].imageData : j \in 1..Len(history)}

SeedScaledByDpr ==
  (lastOp = "fill" /\ variant = 2) =>
    /\ lastFill.startX = MathFloor(lastFill.offsetX * dpr, 1)
    /\ lastFill.startY = MathFloor(lastFill.offsetY * dpr, 1)
    /\ SeedInBounds

\* devicePixelRatio 2, a click at CSS x = 1: the pointer is over buffer
\* pixel (2, y), of another colour than buffer pixel (1, y); the fill was
\* seeded at (1, y), recoloured it and left the pixel under the pointer
SeedNotScaled ==
  /\ lastOp = "fill"
  /\ variant = 2
  /\ dpr = 2
  /\ lastFill.offsetX = 1
  /\ lastFill.startX = 1
  /\ lastFill.startY = lastFill.offsetY
  /\ prev.canvas[lastFill.startY * CanvasWidth + 2] # prev.canvas[lastFill.startY * CanvasWidth + 1]
  /\ canvas[lastFill.startY * CanvasWidth + 1] # prev.canvas[lastFill.startY * CanvasWidth + 1]
  /\ canvas[lastFill.offsetY * dpr * CanvasWidth + 2] = prev.canvas[lastFill.offsetY * dpr * CanvasWidth + 2]

\* the oldest snapshot from before the last handler is no longer in the history
OldestGone == \A j \in 1..Len(history) : history[j] # prev.history[1]

\* C26: a save removes the oldest snapshot only if it is made with the
\* cursor at the end of a history that is already at the limit; a save made
\* below the end (after undos) keeps every snapshot up to the cursor, the
\* oldest included, where it was.
EvictionOnlyAtTailOfFull ==
  (lastOp = "push" /\ Len(prev.history) > 0) =>
    /\ OldestGone =>
         /\ Len(prev.history) = Limit
         /\ prev.historyStep = Len(prev.history) - 1
    /\ prev.historyStep < Len(prev.history) - 1 =>
         \A i \in 1..(prev.historyStep + 1) : history[i] = prev.history[i]

\* a save made one undo below the end of a full history that had already
\* lost its first snapshot: nothing at or before the cursor was removed
EvictionOnlyAtTailOfFullWitness ==
  /\ lastOp = "push"
  /\ prev.lastOp \in UndoOps
  /\ Len(prev.history) = Limit
  /\ prev.historyStep = Limit - 2
  /\ prev.history[1].timestamp > 1
  /\ Len(history) = Limit
  /\ history[1] = prev.history[1]
  /\ history[Limit - 1] = prev.history[Limit - 1]

----------------------------------------------------------------------------
(* Properties of the pointer gestures.                                     *)

\* snapshots taken since the last mousedown
SnapshotsSinceDown == now - gesture.nowAtDown

FinishOps == {"mouseup", "mouseout"}

\* C24: a gesture with the brush or a shape tool takes exactly one
\* snapshot, at the finishDrawing that ends it, and no further one at a
\* mouseout after the mouseup; a mouse move or a finishDrawing call that
\* finds isDrawing false leaves the canvas and the history as they were.
GestureTakesOneSnapshot ==
  /\ (gesture.started /\ gesture.downTool \in {"brush", "line"}) =>
       SnapshotsSinceDown = IF gesture.isDrawing THEN 0 ELSE 1
  /\ (lastOp \in {"mousemove", "mouseup", "mouseout"} /\ ~gesture.wasDrawing) =>
       /\ canvas = prev.canvas
       /\ history = prev.history
       /\ historyStep = prev.historyStep

\* a line was dragged and released, the click was delivered, and the
\* pointer then left the canvas: one snapshot, taken at the mouseup
GestureTakesOneSnapshotWitness ==
  /\ lastOp = "mouseout"
  /\ prev.lastOp = "click"
  /\ gesture.downTool = "line"
  /\ gesture.started
  /\ gesture.recorded # {}
  /\ ~gesture.wasDrawing
  /\ SnapshotsSinceDown = 1
  /\ Len(history) = 2
  /\ history = prev.history

\* C25: a fill gesture (mousedown, mouseup, click with the fill tool) takes
\* one snapshot when floodFill changed pixels and none when it returned
\* early because the seed already had the fill colour; after a fill that
\* changed pixels the snapshot below the cursor is the canvas from before
\* the gesture.
FillGestureTakesOneSnapshot ==
  (lastOp = "click" /\ gesture.tool = "fill" /\ gesture.downTool = "fill") =>
    /\ SnapshotsSinceDown = IF gesture.fillReturned = "done" THEN 1 ELSE 0
    /\ gesture.fillReturned = "done" =>
         /\ historyStep >= 1
         /\ history[historyStep].imageData = gesture.canvasAtDown

\* a fill gesture that changed pixels left two snapshots: a copy of the
\* canvas from before the gesture, taken by finishDrawing at the mouseup,
\* and the filled canvas
FillGestureTakesTwoSnapshots ==
  /\ lastOp = "click"
  /\ prev.lastOp = "mouseup"
  /\ gesture.downTool = "fill"
  /\ gesture.fillReturned = "done"
  /\ SnapshotsSinceDown = 2
  /\ historyStep >= 2
  /\ history[historyStep + 1].imageData = canvas
  /\ canvas # gesture.canvasAtDown
  /\ history[historyStep].imageData = gesture.canvasAtDown
  /\ history[historyStep - 1].imageData = gesture.canvasAtDown

\* a fill gesture on a seed that already had the fill colour left one
\* snapshot although nothing changed
UnchangedFillTakesSnapshot ==
  /\ lastOp = "click"
  /\ gesture.downTool = "fill"
  /\ gesture.fillReturned = "early"
  /\ SnapshotsSinceDown = 1
  /\ canvas = gesture.canvasAtDown

\* the colour the contexts stroke with
StrokeColor == hexToRgb(color)

\* C27: in the second copy, when finishDrawing ends a brush stroke every
\* position that draw recorded during the stroke is painted in the snapshot
\* it takes, and once the stroke has ended and no frame is pending every
\* recorded position is painted on the main canvas.
StrokeRenderedBeforeSnapshot ==
  (variant = 2 /\ gesture.started /\ gesture.downTool = "brush") =>
    /\ (lastOp \in FinishOps /\ gesture.wasDrawing) =>
         \A p \in gesture.recorded : history[historyStep + 1].imageData[p] = StrokeColor
    /\ (~gesture.isDrawing /\ gesture.animationFrameId = <<>>) =>
         \A p \in gesture.recorded : canvas[p] = StrokeColor

\* the mouseup arrived before the frame: the snapshot lacks a recorded point
StrokeTailMissingFromSnapshot ==
  /\ variant = 2
  /\ lastOp = "mouseup"
  /\ gesture.wasDrawing
  /\ gesture.downTool = "brush"
  /\ gesture.animationFrameId # <<>>
  /\ \E p \in gesture.recorded : history[historyStep + 1].imageData[p] # StrokeColor

\* the frame then ran on the emptied pathPoints: the point is never drawn
StrokeTailDropped ==
  /\ variant = 2
  /\ lastOp = "frame"
  /\ ~gesture.wasDrawing
  /\ gesture.downTool = "brush"
  /\ gesture.animationFrameId = <<>>
  /\ gesture.pathPoints = <<Undefined>>
  /\ \E p \in gesture.recorded : canvas[p] # StrokeColor

\* C28: in the second copy, whenever no gesture is in progress the preview
\* overlay is empty and the main canvas is the snapshot at the cursor, and
\* a frame callback that runs after finishDrawing leaves the main canvas as
\* it was.
NothingPaintedAfterFinish ==
  variant = 2 =>
    /\ ~gesture.isDrawing =>
         /\ gesture.preview = clearRect(gesture.preview)
         /\ canvas = history[historyStep + 1].imageData
    /\ (lastOp = "frame" /\ ~gesture.wasDrawing) => canvas = prev.canvas

\* a frame requested during a line drag ran after the mouseup and painted
\* the preview overlay that finishDrawing had cleared
PreviewPaintedAfterFinish ==
  /\ variant = 2
  /\ lastOp = "frame"
  /\ ~gesture.wasDrawing
  /\ ~gesture.isDrawing
  /\ gesture.downTool = "line"
  /\ gesture.preview # clearRect(gesture.preview)

\* what the user sees: the preview overlay over the main canvas
Visible ==
  IF variant = 2
    THEN [i \in DOMAIN canvas |->
            IF gesture.preview[i].a # 0 THEN gesture.preview[i] ELSE canvas[i]]
    ELSE canvas

\* the canvas from before the gesture, with at most one shape from the
\* point of the mousedown
OneShape(img) ==
  \/ img = gesture.canvasAtDown
  \/ \E end \in Points :
       img = stroke(gesture.canvasAtDown, <<gesture.downPoint, end>>, StrokeColor)

\* C29: while a shape is dragged the visible drawing is the canvas from
\* before the gesture plus at most one shape, and so are the canvas and the
\* snapshot that finishDrawing leaves.
ShapePreviewReplaced ==
  (gesture.started /\ gesture.downTool = "line") =>
    /\ gesture.isDrawing => OneShape(Visible)
    /\ (lastOp \in FinishOps /\ gesture.wasDrawing) =>
         /\ OneShape(canvas)
         /\ OneShape(history[historyStep + 1].imageData)

\* first copy: the snapshot taken at the mouseup holds the previews of two
\* positions of the drag
ShapePreviewsAccumulate ==
  /\ variant = 1
  /\ lastOp = "mouseup"
  /\ gesture.wasDrawing
  /\ gesture.downTool = "line"
  /\ Cardinality(gesture.recorded) >= 2
  /\ ~OneShape(history[historyStep + 1].imageData)

----------------------------------------------------------------------------
(* Properties of the recent colours.                                       *)

Listed(list) == {list[i] : i \in DOMAIN list}

\* the position of colour c in a list that holds it once
IndexOf(list, c) == CHOOSE i \in DOMAIN list : list[i] = c

\* C30: recentColors never holds a colour twice and never more than 8
\* colours; right after handleColorChange(c) its first element is c, the
\* colours behind it are colours it held before, in the order they had,
\* and the only colour ever dropped is the last one of a full list when c
\* was not in it.
RecentColorsKept ==
  /\ \A i, j \in DOMAIN recentColors : i # j => recentColors[i] # recentColors[j]
  /\ Len(recentColors) <= 8
  /\ lastOp = "color" =>
       /\ recentColors[1] = color
       /\ \A i \in 2..Len(recentColors) : recentColors[i] \in Listed(prev.recentColors)
       /\ \A i, j \in 2..Len(recentColors) :
            i < j => IndexOf(prev.recentColors, recentColors[i])
                       < IndexOf(prev.recentColors, recentColors[j])
       /\ \A i \in DOMAIN prev.recentColors :
            \/ prev.recentColors[i] \in Listed(recentColors)
            \/ i = 8 /\ color \notin Listed(prev.recentColors)
       /\ (Len(prev.recentColors) = 8 /\ color \notin Listed(prev.recentColors)) =>
            prev.recentColors[8] \notin Listed(recentColors)

\* a ninth colour arrived at a full list whose order earlier picks had
\* changed: it is first, the last one is gone, the rest moved back by one
RecentColorsKeptWitness ==
  /\ lastOp = "color"
  /\ sideOps > 0
  /\ Len(prev.recentColors) = 8
  /\ color \notin Listed(prev.recentColors)
  /\ Len(recentColors) = 8
  /\ recentColors[1] = color
  /\ prev.recentColors[8] \notin Listed(recentColors)
  /\ \A i \in 2..8 : recentColors[i] = prev.recentColors[i - 1]

====
